---- MODULE Spec2Model ----
(***************************************************************************)
(* A model of tables/build_tables.py: the Tabulate column formatter, the   *)
(* UnicodeData and UCSTables importers, the case-change and encoding table *)
(* writers, and the control flow of main.                                  *)
(*                                                                         *)
(* Python strings are sequences of one-character strings; an Optional     *)
(* value is None or Some(v); a dict is a sequence of [key, value] records  *)
(* in insertion order.                                                     *)
(***************************************************************************)
EXTENDS Integers, Sequences, FiniteSets, TLC

VARIABLES
    pc,                 \* where the run is: a stage of main, or the unit under test
    ucd_file,           \* the lines of UnicodeData.txt, as the file iterator yields them
    ucs_file,           \* the lines of UCSTables, as the file iterator yields them
    unicode_data,       \* dict[int, CodePoint] in insertion order, or None
    riscos_ucs_tables,  \* dict[str, list[int]], or None
    encoding,           \* what build_encoding_table returned or raised, or None
    table,              \* the Tabulate instance
    output,             \* what iterating table.lines() produced, or None
    log,                \* the messages main has logged, in order
    raised              \* the exception that left the current function, or "none"

vars == <<pc, ucd_file, ucs_file, unicode_data, riscos_ucs_tables, encoding,
          table, output, log, raised>>

\* Optional values: None is the empty sequence and a present value v is <<v>>.
None == <<>>
Some(v) == <<v>>
IsNone(x) == x = <<>>
Val(x) == x[1]

(***************************************************************************)
(* Bounds of the model.                                                    *)
(***************************************************************************)
MaxCells == 4
MaxLines == 4
MaxRecords == 2
MaxMapped == 3

(***************************************************************************)
(* Strings.                                                                *)
(***************************************************************************)
Tab == "\t"

\* str.isspace() for the characters of the model.
IsSpace(c) == c \in {" ", "\t", "\n"}

RECURSIVE rstrip(_)
\* str.rstrip(): drop trailing whitespace.
rstrip(s) ==
    IF s = <<>> THEN <<>>
    ELSE IF IsSpace(s[Len(s)]) THEN rstrip(SubSeq(s, 1, Len(s) - 1))
    ELSE s

RECURSIVE lstrip(_)
\* str.lstrip(): drop leading whitespace.
lstrip(s) ==
    IF s = <<>> THEN <<>>
    ELSE IF IsSpace(s[1]) THEN lstrip(Tail(s))
    ELSE s

\* str.strip()
strip(s) == lstrip(rstrip(s))

RECURSIVE Repeat(_, _)
\* c * n for a one-character string c: the empty string when n <= 0.
Repeat(c, n) == IF n <= 0 THEN <<>> ELSE <<c>> \o Repeat(c, n - 1)

RECURSIVE join(_)
\* "".join(parts)
join(parts) == IF parts = <<>> THEN <<>> ELSE Head(parts) \o join(Tail(parts))

Max(a, b) == IF a >= b THEN a ELSE b

(***************************************************************************)
(* class Tabulate.  A row is [kind |-> "str", text |-> s] for a plain line *)
(* and [kind |-> "tuple", fields |-> <<f1, ...>>] for a tabulated row.     *)
(***************************************************************************)
StrRow(s) == [kind |-> "str", text |-> s]
TupleRow(fs) == [kind |-> "tuple", fields |-> fs]

\* The default of the width parameter of Tabulate.__init__.
DefaultTabWidth == 8

\* Tabulate.__init__
Tabulate(width) == [tab_width |-> width, rows |-> <<>>, widths |-> <<>>]

\* Tabulate.clear
clear(t) == [t EXCEPT !.rows = <<>>, !.widths = <<>>]

\* The loop of add_row over the fields: widths grows to cover every field
\* index, and each width becomes the longest field seen at that index.
TotUpWidths(widths, line) ==
    [i \in 1..Max(Len(widths), Len(line)) |->
        LET old == IF i <= Len(widths) THEN widths[i] ELSE 0
        IN  IF i <= Len(line) /\ Len(line[i]) > old THEN Len(line[i]) ELSE old]

\* Tabulate.add_row
add_row(t, line) ==
    [t EXCEPT !.widths = TotUpWidths(t.widths, line),
              !.rows = Append(t.rows, TupleRow(line))]

\* Tabulate.add_line
add_line(t, line) == [t EXCEPT !.rows = Append(t.rows, StrRow(line))]

\* Tabulate.add_space
add_space(t) ==
    IF Len(t.rows) > 0 THEN [t EXCEPT !.rows = Append(t.rows, StrRow(<<>>))] ELSE t

\* Column with the tabs counted from the field alone: the column's width is ignored.
ColumnOwnWidth(fld, width, tab_width) == fld \o <<Tab>>

\* One field of a row and the tabs that follow it.
Column(fld, width, tab_width) ==
    LET column_tabs == (width \div tab_width) + 1
        field_tabs == Len(fld) \div tab_width
    IN  fld \o Repeat(Tab, column_tabs - field_tabs)

\* zip without strict=True: it stops at the shorter argument and never raises.
ZipTruncates(fields, widths) == TRUE

\* zip(line, self.widths, strict=True) runs to completion only when both have
\* the same length; otherwise it raises ValueError.
ZipStrictOk(fields, widths) == Len(fields) = Len(widths)

\* The line yielded for a tuple row.
RenderRow(fields, widths, tab_width) ==
    rstrip(join([i \in 1..Len(fields) |-> Column(fields[i], widths[i], tab_width)]))

RECURSIVE LinesFrom(_, _, _)
\* The generator body of Tabulate.lines from row i on, given what was yielded
\* so far: [out |-> lines yielded, err |-> "none" or the exception raised].
LinesFrom(t, i, out) ==
    IF i > Len(t.rows) THEN [out |-> out, err |-> "none"]
    ELSE LET line == t.rows[i]
         IN  IF line.kind = "str" THEN LinesFrom(t, i + 1, Append(out, line.text))
             ELSE IF ZipStrictOk(line.fields, t.widths)
                  THEN LinesFrom(t, i + 1,
                           Append(out, RenderRow(line.fields, t.widths, t.tab_width)))
                  ELSE [out |-> out, err |-> "ValueError"]

\* Tabulate.lines, iterated to the end
lines(t) == LinesFrom(t, 1, <<>>)

(***************************************************************************)
(* Inputs of the Tabulate operations.                                      *)
(***************************************************************************)
TabWidths == {1, 2}

FieldSet == { <<>>, <<"a">>, <<"a", "a">>, <<" ">>, <<Tab>> }

TextSet == { <<"/", "*">> }

\* What a row costs against MaxCells: its fields, and at least one.
Cost(row) == IF row.kind = "tuple" THEN Max(1, Len(row.fields)) ELSE 1

RECURSIVE Cells(_)
Cells(rows) == IF rows = <<>> THEN 0 ELSE Cost(Head(rows)) + Cells(Tail(rows))

RowInputs(room) ==
    UNION { [1..n -> FieldSet] : n \in 0..room }

(***************************************************************************)
(* Numbers as text.                                                        *)
(***************************************************************************)
HexDigits == <<"0", "1", "2", "3", "4", "5", "6", "7", "8", "9",
               "a", "b", "c", "d", "e", "f">>
UpperHexDigits == <<"0", "1", "2", "3", "4", "5", "6", "7", "8", "9",
                    "A", "B", "C", "D", "E", "F">>

IsHexDigit(c) == \E d \in 1..16 : HexDigits[d] = c \/ UpperHexDigits[d] = c

HexDigitValue(c) == (CHOOSE d \in 1..16 : HexDigits[d] = c \/ UpperHexDigits[d] = c) - 1

RECURSIVE HexDigitsValue(_, _)
HexDigitsValue(s, acc) ==
    IF s = <<>> THEN acc ELSE HexDigitsValue(Tail(s), acc * 16 + HexDigitValue(Head(s)))

\* int(s, 16) for text made of hex digits and whitespace: Some(value), or None
\* where int raises ValueError (no digits, or a character that is no digit).
int16(s) ==
    LET t == strip(s)
    IN  IF t = <<>> \/ \E i \in 1..Len(t) : ~IsHexDigit(t[i]) THEN None
        ELSE Some(HexDigitsValue(t, 0))

RECURSIVE FormatHex(_)
\* f"{n:x}" for n >= 0
FormatHex(n) ==
    IF n < 16 THEN <<HexDigits[n + 1]>>
    ELSE FormatHex(n \div 16) \o <<HexDigits[(n % 16) + 1]>>

\* f"{n:02x}" for n >= 0
FormatHex02(n) == IF n < 16 THEN <<"0">> \o FormatHex(n) ELSE FormatHex(n)

RECURSIVE FormatDec(_)
\* f"{n}" for n >= 0
FormatDec(n) ==
    IF n < 10 THEN <<HexDigits[n + 1]>>
    ELSE FormatDec(n \div 10) \o <<HexDigits[(n % 10) + 1]>>

RECURSIVE split(_, _)
\* s.split(sep) for a one-character separator
split(s, sep) ==
    IF \A i \in 1..Len(s) : s[i] # sep THEN <<s>>
    ELSE LET p == CHOOSE i \in 1..Len(s) : s[i] = sep /\ \A j \in 1..(i - 1) : s[j] # sep
         IN  <<SubSeq(s, 1, p - 1)>> \o split(SubSeq(s, p + 1, Len(s)), sep)

(***************************************************************************)
(* dict: [key, value] records in insertion order; assigning to a key that  *)
(* is present keeps its place.                                             *)
(***************************************************************************)
DictHas(d, k) == \E i \in 1..Len(d) : d[i].key = k

DictGet(d, k) == d[CHOOSE i \in 1..Len(d) : d[i].key = k].value

DictSet(d, k, v) ==
    IF DictHas(d, k)
    THEN [i \in 1..Len(d) |-> IF d[i].key = k THEN [key |-> k, value |-> v] ELSE d[i]]
    ELSE Append(d, [key |-> k, value |-> v])

DictKeys(d) == { d[i].key : i \in 1..Len(d) }

(***************************************************************************)
(* import_riscos_ucs_tables.  The scan state is the dict being built, the  *)
(* name under which current_table is stored (None before the first table  *)
(* line), the warnings logged and the exception raised, if any.            *)
(***************************************************************************)
RECURSIVE ScanFields(_, _)
\* The loop over the fields of one data line: [values, warnings, err].
ScanFields(fields, acc) ==
    IF fields = <<>> THEN acc
    ELSE LET fld == Head(fields)
         IN  IF fld = <<>> THEN [acc EXCEPT !.err = "IndexError"]
             ELSE IF fld[1] # "&"
                  THEN ScanFields(Tail(fields), [acc EXCEPT !.warnings = @ + 1])
             ELSE LET v == int16(Tail(fld))
                  IN  IF IsNone(v) THEN [acc EXCEPT !.err = "ValueError"]
                      ELSE ScanFields(Tail(fields),
                                      [acc EXCEPT !.values = Append(@, Val(v))])

\* A table-name line that keeps the list already stored under the name.
DeclareTableKeepsList(st, line) ==
    [st EXCEPT !.tables = IF DictHas(@, line) THEN @ ELSE DictSet(@, line, <<>>),
               !.current_table = Some(line)]

\* A table-name line: a new list is stored under the name and becomes current.
DeclareTable(st, line) ==
    [st EXCEPT !.tables = DictSet(@, line, <<>>), !.current_table = Some(line)]

\* The body of the loop over the lines of the file.
ScanLine(st, rawline) ==
    LET line == strip(rawline)
    IN  IF line = <<>> \/ line[1] \in {";", "[", "]"} THEN st
        ELSE IF line[1] = "&"
        THEN IF IsNone(st.current_table) THEN st
             ELSE IF SubSeq(line, 1, 2) # <<"&", " ">>
                  THEN [st EXCEPT !.warnings = @ + 1]
             ELSE LET name == Val(st.current_table)
                      got == ScanFields(split(SubSeq(line, 3, Len(line)), ","),
                                        [values |-> <<>>, warnings |-> 0, err |-> "none"])
                  IN  [st EXCEPT !.tables = DictSet(@, name, DictGet(@, name) \o got.values),
                                 !.warnings = @ + got.warnings,
                                 !.err = got.err]
        ELSE DeclareTable(st, line)

RECURSIVE ScanLines(_, _)
ScanLines(st, file) ==
    IF file = <<>> \/ st.err # "none" THEN st
    ELSE ScanLines(ScanLine(st, Head(file)), Tail(file))

\* import_riscos_ucs_tables on the lines the file yields
import_riscos_ucs_tables(file) ==
    ScanLines([tables |-> <<>>, current_table |-> None, warnings |-> 0, err |-> "none"],
              file)

(***************************************************************************)
(* Lines of a UCSTables file.                                              *)
(***************************************************************************)
NameL1 == <<"L", "1">>
NameL2 == <<"L", "2">>

UcsLines == {
    NameL1,
    NameL2 \o <<" ">>,
    <<>>,
    <<";", " ", "c">>,
    <<"[">>,
    <<"&", " ", "&", "4", "1">>,
    <<" ", " ", "&", " ", "&", "A", "0", ",", "&", "4", "1">>,
    <<"&", "4", "1">>,
    <<"&", " ", "4", "1", ",", "&", "A", "0">>,
    <<"&", " ", "&", "4", "1", ",", ",", "&", "A", "0">>,
    <<"&", " ", "&", "4", "G", ",", "&", "A", "0">>,
    <<"&", " ", "&", "4", "1", " ", ",", " ", "&", "A", "0">> }

UcsFiles == UNION { [1..n -> UcsLines] : n \in 0..MaxLines }

(***************************************************************************)
(* import_unicode_data.  A CodePoint is a record of Optional fields; the   *)
(* dict is keyed by the Optional codepoint.                                *)
(***************************************************************************)
RecordFields == 15

\* int(text, 16) if text != '' else None, as [value, err]
OptionalHex(text) ==
    IF text = <<>> THEN [value |-> None, err |-> "none"]
    ELSE IF IsNone(int16(text)) THEN [value |-> None, err |-> "ValueError"]
    ELSE [value |-> int16(text), err |-> "none"]

\* The body of the loop over the lines of UnicodeData.txt.
ImportLine(st, rawline) ==
    LET fields == split(rstrip(rawline), ";")
    IN  IF Len(fields) # RecordFields THEN st
        ELSE LET codepoint == OptionalHex(fields[1])
                 upper == OptionalHex(fields[13])
                 lower == OptionalHex(fields[14])
                 title == OptionalHex(fields[15])
             IN  IF \E r \in {codepoint, upper, lower, title} : r.err # "none"
                 THEN [st EXCEPT !.err = "ValueError"]
                 ELSE [st EXCEPT !.characters =
                          DictSet(@, codepoint.value,
                                  [CodePoint |-> codepoint.value,
                                   CharacterName |-> IF fields[2] # <<>>
                                                     THEN Some(fields[2]) ELSE None,
                                   UpperCase |-> upper.value,
                                   LowerCase |-> lower.value,
                                   TitleCase |-> title.value])]

RECURSIVE ImportLines(_, _)
ImportLines(st, file) ==
    IF file = <<>> \/ st.err # "none" THEN st
    ELSE ImportLines(ImportLine(st, Head(file)), Tail(file))

\* import_unicode_data on the lines the file yields
import_unicode_data(file) == ImportLines([characters |-> <<>>, err |-> "none"], file)

(***************************************************************************)
(* write_case_change_table                                                 *)
(***************************************************************************)
UpperLetters == <<"A", "B", "C", "D", "E">>
LowerLetters == <<"a", "b", "c", "d", "e">>

IsCased(c) == \E i \in 1..5 : UpperLetters[i] = c \/ LowerLetters[i] = c
ToUpper(c) == IF \E i \in 1..5 : LowerLetters[i] = c
              THEN UpperLetters[CHOOSE i \in 1..5 : LowerLetters[i] = c] ELSE c
ToLower(c) == IF \E i \in 1..5 : UpperLetters[i] = c
              THEN LowerLetters[CHOOSE i \in 1..5 : UpperLetters[i] = c] ELSE c

RECURSIVE TitleFrom(_, _)
TitleFrom(s, after_cased) ==
    IF s = <<>> THEN <<>>
    ELSE <<IF after_cased THEN ToLower(Head(s)) ELSE ToUpper(Head(s))>>
         \o TitleFrom(Tail(s), IsCased(Head(s)))

\* str.title() for the letters of the model
title(s) == TitleFrom(s, FALSE)

\* The skip test of the loop: the character has no case mapping at all.
NoCaseMapping(character) ==
    IsNone(character.UpperCase) /\ IsNone(character.LowerCase) /\ IsNone(character.TitleCase)

\* f"0x{v:x}" if v is not None else "0x0"
CaseText(v) == <<"0", "x">> \o (IF IsNone(v) THEN <<"0">> ELSE FormatHex(Val(v)))

\* A title case text that ignores the upper case mapping.
TitleCaseTextNoDefault(character) == CaseText(character.TitleCase)

\* title_case: the title case mapping, and the upper case text without one.
TitleCaseText(character) ==
    IF ~IsNone(character.TitleCase) THEN CaseText(character.TitleCase)
    ELSE CaseText(character.UpperCase)

\* The comment block and opening line written before the rows.
CaseTableHeader(t, struct_name) ==
    LET t1 == add_space(t)
        t2 == add_line(t1, <<"/**">>)
        t3 == add_line(t2, <<" * The list of known character case conversions.">>)
        t4 == add_line(t3, <<" *">>)
        t5 == add_line(t4, <<" * The order of this table is by ascending unicode point, with -1 at">>)
        t6 == add_line(t5, <<" * the end as an end stop.">>)
        t7 == add_line(t6, <<" *">>)
        t8 == add_line(t7, <<" * The data in this table was derived from UnicodeData 17.0.0">>)
        t9 == add_line(t8, <<" */">>)
        t10 == add_space(t9)
    IN  add_line(t10, <<"static struct case_character ", struct_name, "[] = {">>)

\* The tuple passed to add_row for one character.
CaseRow(codepoint, character) ==
    << <<>>,
       <<"{", "0", "x">> \o FormatHex(Val(codepoint)) \o <<",">>,
       CaseText(character.UpperCase) \o <<",">>,
       CaseText(character.LowerCase) \o <<",">>,
       TitleCaseText(character) \o <<"}", ",">>,
       <<"/", "/", " ">> \o title(Val(character.CharacterName)) >>

RECURSIVE CaseRows(_, _)
\* The loop over unicode_data.items(): [table, err].  Formatting a None
\* codepoint raises TypeError, and None has no title().
CaseRows(acc, items) ==
    IF items = <<>> THEN acc
    ELSE LET codepoint == Head(items).key
             character == Head(items).value
         IN  IF NoCaseMapping(character) THEN CaseRows(acc, Tail(items))
             ELSE IF IsNone(codepoint) THEN [acc EXCEPT !.err = "TypeError"]
             ELSE IF IsNone(character.CharacterName)
                  THEN [acc EXCEPT !.err = "AttributeError"]
             ELSE CaseRows([acc EXCEPT !.table = add_row(@, CaseRow(codepoint, character))],
                           Tail(items))

CaseEndRow == << <<>>, <<"{", "-", "1", ",">>, <<"0", "x", "0", ",">>, <<"0", "x", "0", ",">>, <<"0", "x", "0", "}">>, <<"/", "/", " ", "E", "n", "d", " ", "o", "f", " ", "T", "a", "b", "l", "e">> >>

\* write_case_change_table: [table, err]
write_case_change_table(t, data, struct_name) ==
    LET body == CaseRows([table |-> CaseTableHeader(t, struct_name), err |-> "none"], data)
    IN  IF body.err # "none" THEN body
        ELSE [body EXCEPT !.table = add_line(add_row(@, CaseEndRow), <<"};">>)]

(***************************************************************************)
(* build_encoding_table and write_encoding_table                           *)
(***************************************************************************)
\* 0xffffffff in the source: the largest integer TLC holds stands for it.
Sentinel == 2147483647
FirstPrintable == 32
Delete == 127
FirstTopBit == 128

EncodingEntry(codepoint, character, name) ==
    [CodePoint |-> codepoint, Character |-> character, CharacterName |-> name]

\* The order of the characters of the model by code point.
CharOrder == <<" ", "A", "B", "C", "D", "E", "a", "b", "c", "d", "e">>
Ord(c) == CHOOSE i \in 1..Len(CharOrder) : CharOrder[i] = c

RECURSIVE StrLess(_, _)
\* a < b for strings
StrLess(a, b) ==
    IF b = <<>> THEN FALSE
    ELSE IF a = <<>> THEN TRUE
    ELSE IF Head(a) # Head(b) THEN Ord(Head(a)) < Ord(Head(b))
    ELSE StrLess(Tail(a), Tail(b))

\* An order on entries that looks at the byte value as well.
EntryLessWithCharacter(a, b) ==
    \/ a.CodePoint < b.CodePoint
    \/ a.CodePoint = b.CodePoint /\ a.Character > b.Character

\* EncodingEntry.__lt__ as dataclass(order=True) generates it: the tuples of
\* the compared fields, (CodePoint, CharacterName), are compared; Character is
\* declared compare=False.  (A None name is only ever met by an equal None.)
EntryLess(a, b) ==
    IF a.CodePoint # b.CodePoint THEN a.CodePoint < b.CodePoint
    ELSE IF a.CharacterName # b.CharacterName
         THEN StrLess(Val(a.CharacterName), Val(b.CharacterName))
    ELSE FALSE

RECURSIVE InsertSorted(_, _)
\* x goes before the first entry it is less than: after its equals.
InsertSorted(sorted, x) ==
    IF sorted = <<>> THEN <<x>>
    ELSE IF EntryLess(x, Head(sorted)) THEN <<x>> \o sorted
    ELSE <<Head(sorted)>> \o InsertSorted(Tail(sorted), x)

RECURSIVE sort(_, _)
\* list.sort(): a stable sort by EntryLess
sort(sorted, rest) ==
    IF rest = <<>> THEN sorted ELSE sort(InsertSorted(sorted, Head(rest)), Tail(rest))

\* The skip test of the loop of build_encoding_table.
SkippedByte(character, codepoint) ==
    character < FirstPrintable \/ character = Delete \/ codepoint = Sentinel

\* A loop body that leaves out an entry whose codepoint is not in unicode_data.
CollectEntrySkipsMissing(data, acc, character, codepoint) ==
    IF SkippedByte(character, codepoint) \/ ~DictHas(data, Some(codepoint)) THEN acc
    ELSE [acc EXCEPT !.list = Append(@,
             EncodingEntry(codepoint, character,
                           DictGet(data, Some(codepoint)).CharacterName))]

\* The body of the loop over enumerate(riscos_table): unicode_data[codepoint]
\* raises KeyError for a codepoint that is not a key.
CollectEntry(data, acc, character, codepoint) ==
    IF SkippedByte(character, codepoint) THEN acc
    ELSE IF ~DictHas(data, Some(codepoint)) THEN [acc EXCEPT !.err = "KeyError"]
    ELSE [acc EXCEPT !.list = Append(@,
             EncodingEntry(codepoint, character,
                           DictGet(data, Some(codepoint)).CharacterName))]

RECURSIVE CollectEntries(_, _, _, _, _)
\* The loop over the indexes lo..hi in ascending order (byte value i - 1 at
\* index i), split in halves; no entry is looked at once KeyError is raised.
CollectEntries(data, riscos_table, lo, hi, acc) ==
    IF lo > hi \/ acc.err # "none" THEN acc
    ELSE IF lo = hi THEN CollectEntry(data, acc, lo - 1, riscos_table[lo])
    ELSE LET mid == (lo + hi) \div 2
         IN  CollectEntries(data, riscos_table, mid + 1, hi,
                            CollectEntries(data, riscos_table, lo, mid, acc))

\* build_encoding_table: [list, err]; no list is returned when err is set
build_encoding_table(data, riscos_table) ==
    LET got == CollectEntries(data, riscos_table, 1, Len(riscos_table),
                              [list |-> <<>>, err |-> "none"])
    IN  IF got.err # "none" THEN [list |-> <<>>, err |-> got.err]
        ELSE [list |-> sort(<<>>, got.list), err |-> "none"]

\* A render test that lets every entry through.
RendersAll(character) == FALSE

\* The skip test of the loop of write_encoding_table.
NotRendered(character) == character.Character < FirstTopBit

EncodingRow(character) ==
    << <<>>,
       <<"{">> \o FormatDec(character.CodePoint) \o <<",">>,
       <<"'", "\\", "x">> \o FormatHex02(character.Character) \o <<"'", "}", ",">>,
       <<"/", "/", " ">> \o title(Val(character.CharacterName)) >>

RECURSIVE EncodingRows(_, _)
\* The loop over encoding_data: [table, err].
EncodingRows(acc, entries) ==
    IF entries = <<>> THEN acc
    ELSE LET character == Head(entries)
         IN  IF NotRendered(character) THEN EncodingRows(acc, Tail(entries))
             ELSE IF IsNone(character.CharacterName)
                  THEN [acc EXCEPT !.err = "AttributeError"]
             ELSE EncodingRows([acc EXCEPT !.table = add_row(@, EncodingRow(character))],
                               Tail(entries))

EncodingEndRow == << <<>>, <<"{", "0", ",">>, <<"'", "\\", "0", "'", "}">>, <<"/", "/", " ", "E", "n", "d", " ", "o", "f", " ", "T", "a", "b", "l", "e">> >>

\* write_encoding_table: [table, err]
write_encoding_table(t, data, riscos_tables, riscos_table_name, struct_name, table_title) ==
    IF ~DictHas(riscos_tables, riscos_table_name) THEN [table |-> t, err |-> "KeyError"]
    ELSE LET encoding_data == build_encoding_table(data, DictGet(riscos_tables,
                                                                 riscos_table_name))
         IN  IF encoding_data.err # "none" THEN [table |-> t, err |-> encoding_data.err]
             ELSE LET t1 == add_space(t)
                      t2 == add_line(t1, <<"/**">>)
                      t3 == add_line(t2, <<" * UTF8 to ", table_title>>)
                      t4 == add_line(t3, <<" */">>)
                      t5 == add_space(t4)
                      t6 == add_line(t5, <<"static struct encoding_map ", struct_name,
                                           "[] = {">>)
                      body == EncodingRows([table |-> t6, err |-> "none"],
                                           encoding_data.list)
                  IN  IF body.err # "none" THEN body
                      ELSE [body EXCEPT !.table =
                               add_line(add_row(@, EncodingEndRow), <<"};">>)]

(***************************************************************************)
(* Lines of a UnicodeData.txt file.                                        *)
(***************************************************************************)
RECURSIVE JoinWith(_, _)
JoinWith(fields, sep) ==
    IF Len(fields) = 1 THEN fields[1]
    ELSE fields[1] \o <<sep>> \o JoinWith(Tail(fields), sep)

\* A 15-field record as the file iterator yields it, newline included.
Record(codepoint, name, upper, lower, titlecase) ==
    JoinWith(<<codepoint, name, <<"L", "u">>, <<"0">>, <<"L">>, <<>>, <<>>, <<>>, <<>>, <<"N">>, <<>>, <<>>,
               upper, lower, titlecase>>, ";") \o <<"\n">>

ShortLine == <<"4", "1", ";", "B", "A", "D">> \o <<"\n">>

UcdLines ==
    { Record(c, n, u, l, t) :
        c \in {<<>>, <<"4", "1">>, <<"6", "1">>}, n \in {<<>>, <<"B", "A", "D", " ", "C", "A", "B">>},
        u \in {<<>>, <<"4", "2">>}, l \in {<<>>, <<"6", "2">>}, t \in {<<>>, <<"4", "3">>} }
    \cup {ShortLine}

UcdFiles == UNION { [1..n -> UcdLines] : n \in 0..MaxRecords }

(***************************************************************************)
(* Legacy byte tables: 256 entries, all unmapped but for a few bytes.      *)
(***************************************************************************)
MappedBytes == {31, 32, 65, 127, 128, 255}
MappedCodePoints == {65, 160, 192}

LegacyTables ==
    { [i \in 1..256 |-> IF (i - 1) \in DOMAIN m THEN m[i - 1] ELSE Sentinel] :
        m \in UNION { [B -> MappedCodePoints] :
                        B \in { S \in SUBSET MappedBytes : Cardinality(S) <= MaxMapped } } }

\* The Unicode mappings the encoding tables are built from: what
\* import_unicode_data returns for files with some of three records.
EncodingRecords == << Record(<<"4", "1">>, <<"B", "A", "D">>, <<>>, <<"6", "1">>, <<>>),
                      Record(<<"A", "0">>, <<"C", "A", "B">>, <<>>, <<>>, <<>>),
                      Record(<<"C", "0">>, <<"A", "C", "E">>, <<>>, <<"E", "0">>, <<>>) >>

RECURSIVE SubSequences(_)
SubSequences(seq) ==
    IF seq = <<>> THEN { <<>> }
    ELSE LET rest == SubSequences(Tail(seq))
         IN  rest \cup { <<Head(seq)>> \o r : r \in rest }

EncodingUnicodeData ==
    { import_unicode_data(f).characters : f \in SubSequences(EncodingRecords) }

(***************************************************************************)
(* The inputs of a whole run of main.                                      *)
(***************************************************************************)
MainUcdLines == { Record(<<"4", "1">>, <<"B", "A", "D", " ", "C", "A", "B">>, <<>>, <<"6", "2">>, <<>>),
                  Record(<<"6", "1">>, <<>>, <<"4", "2">>, <<>>, <<>>),
                  Record(<<"4", "G">>, <<"B", "A", "D">>, <<>>, <<>>, <<>>),
                  ShortLine }

MainUcdFiles == UNION { [1..n -> MainUcdLines] : n \in 0..MaxRecords }

MainUcsLines == { NameL1, NameL2, <<"&", " ", "&", "4", "1", ",", "&", "A", "0">>, <<"&", " ", "&", "4", "1", ",", ",", "&", "A", "0">> }

MainUcsFiles == UNION { [1..n -> MainUcsLines] : n \in 0..MaxLines }

(***************************************************************************)
(* The Tabulate operations as actions.                                     *)
(***************************************************************************)
TabUnchanged == UNCHANGED <<pc, ucd_file, ucs_file, unicode_data, riscos_ucs_tables,
                            encoding, log, raised>>

CallClear ==
    /\ pc = "tabulate"
    /\ Len(table.rows) > 0
    /\ table' = clear(table)
    /\ output' = None
    /\ TabUnchanged

CallAddRow ==
    /\ pc = "tabulate"
    /\ Cells(table.rows) < MaxCells
    /\ \E line \in RowInputs(MaxCells - Cells(table.rows)) :
          table' = add_row(table, line)
    /\ output' = None
    /\ TabUnchanged

CallAddLine ==
    /\ pc = "tabulate"
    /\ Cells(table.rows) < MaxCells
    /\ \E line \in TextSet : table' = add_line(table, line)
    /\ output' = None
    /\ TabUnchanged

CallAddSpace ==
    /\ pc = "tabulate"
    /\ Cells(table.rows) < MaxCells
    /\ table' = add_space(table)
    /\ output' = None
    /\ TabUnchanged

CallLines ==
    /\ pc = "tabulate"
    /\ output = None
    /\ output' = Some(lines(table))
    /\ UNCHANGED table
    /\ TabUnchanged

InitTab ==
    /\ pc = "tabulate"
    /\ ucd_file = <<>>
    /\ ucs_file = <<>>
    /\ unicode_data = None
    /\ riscos_ucs_tables = None
    /\ encoding = None
    /\ \E w \in TabWidths : table = Tabulate(w)
    /\ output = None
    /\ log = <<>>
    /\ raised = "none"

NextTab == CallClear \/ CallAddRow \/ CallAddLine \/ CallAddSpace \/ CallLines

SpecTab == InitTab /\ [][NextTab]_vars

(***************************************************************************)
(* import_unicode_data and write_case_change_table applied to a file.      *)
(***************************************************************************)
CallImportUnicodeData ==
    /\ pc = "ucd"
    /\ LET r == import_unicode_data(ucd_file)
       IN  IF r.err = "none"
           THEN unicode_data' = Some(r.characters) /\ raised' = "none" /\ pc' = "ucd_done"
           ELSE unicode_data' = None /\ raised' = r.err /\ pc' = "ucd_failed"
    /\ UNCHANGED <<ucd_file, ucs_file, riscos_ucs_tables, encoding, table, output, log>>

CallWriteCaseChangeTable ==
    /\ pc = "ucd_done"
    /\ LET r == write_case_change_table(table, Val(unicode_data), "case_table")
       IN  table' = r.table /\ raised' = r.err
    /\ pc' = "case_done"
    /\ UNCHANGED <<ucd_file, ucs_file, unicode_data, riscos_ucs_tables, encoding, output, log>>

InitCase ==
    /\ pc = "ucd"
    /\ ucd_file \in UcdFiles
    /\ ucs_file = <<>>
    /\ unicode_data = None
    /\ riscos_ucs_tables = None
    /\ encoding = None
    /\ table = Tabulate(DefaultTabWidth)
    /\ output = None
    /\ log = <<>>
    /\ raised = "none"

NextCase == CallImportUnicodeData \/ CallWriteCaseChangeTable

SpecCase == InitCase /\ [][NextCase]_vars

(***************************************************************************)
(* build_encoding_table and write_encoding_table applied to a byte table.  *)
(***************************************************************************)
CallBuildEncodingTable ==
    /\ pc = "enc"
    /\ encoding' = Some(build_encoding_table(Val(unicode_data),
                                             DictGet(Val(riscos_ucs_tables), NameL1)))
    /\ pc' = "built"
    /\ UNCHANGED <<ucd_file, ucs_file, unicode_data, riscos_ucs_tables, table, output,
                   log, raised>>

CallWriteEncodingTable ==
    /\ pc = "built"
    /\ LET r == write_encoding_table(table, Val(unicode_data), Val(riscos_ucs_tables),
                                     NameL1, "encoding_acorn_latin1", "RISC OS Latin 1")
       IN  table' = r.table /\ raised' = r.err
    /\ pc' = "written"
    /\ UNCHANGED <<ucd_file, ucs_file, unicode_data, riscos_ucs_tables, encoding, output, log>>

InitEnc ==
    /\ pc = "enc"
    /\ ucd_file = <<>>
    /\ ucs_file = <<>>
    /\ unicode_data \in { Some(d) : d \in EncodingUnicodeData }
    /\ riscos_ucs_tables \in { Some(<<[key |-> NameL1, value |-> tbl]>>) : tbl \in LegacyTables }
    /\ encoding = None
    /\ table = Tabulate(DefaultTabWidth)
    /\ output = None
    /\ log = <<>>
    /\ raised = "none"

NextEnc == CallBuildEncodingTable \/ CallWriteEncodingTable

SpecEnc == InitEnc /\ [][NextEnc]_vars

(***************************************************************************)
(* main.  An exception that no except clause catches leaves main: the run  *)
(* ends at "crashed" with the exception in raised.  Opening, reading and   *)
(* writing a file may fail.                                                *)
(***************************************************************************)
Logged(level, msg) == Append(log, [level |-> level, msg |-> msg])

\* Lines 188-193: load the Unicode data, or log the failure and return.
MainLoadUnicodeData ==
    /\ pc = "main"
    /\ \E io_ok \in BOOLEAN :
          LET r == import_unicode_data(ucd_file)
          IN  IF io_ok /\ r.err = "none"
              THEN /\ unicode_data' = Some(r.characters)
                   /\ log' = Logged("info", "UnicodeData file loaded.")
                   /\ pc' = "case_table"
              ELSE /\ unicode_data' = None
                   /\ log' = Logged("error", "Failed to load UnicodeData file")
                   /\ pc' = "returned"
    /\ UNCHANGED <<ucd_file, ucs_file, riscos_ucs_tables, encoding, table, output, raised>>

\* Lines 197-199: clear the table and write the case table, outside any try.
MainWriteCaseChangeTable ==
    /\ pc = "case_table"
    /\ LET r == write_case_change_table(clear(table), Val(unicode_data), "case_table")
       IN  /\ table' = r.table
           /\ raised' = r.err
           /\ IF r.err = "none"
              THEN /\ log' = Logged("info", "Generated the case conversion table.")
                   /\ pc' = "case_file"
              ELSE /\ log' = log
                   /\ pc' = "crashed"
    /\ UNCHANGED <<ucd_file, ucs_file, unicode_data, riscos_ucs_tables, encoding, output>>

\* Lines 201-208: write case_table.txt; any failure is logged.
MainWriteCaseFile ==
    /\ pc = "case_file"
    /\ output' = Some(lines(table))
    /\ \E io_ok \in BOOLEAN :
          log' = IF io_ok /\ lines(table).err = "none"
                 THEN Logged("info", "Case Change Table written.")
                 ELSE Logged("error", "Failed to write Case Change Table")
    /\ pc' = "load_ucs"
    /\ UNCHANGED <<ucd_file, ucs_file, unicode_data, riscos_ucs_tables, encoding, table, raised>>

\* Lines 212-217: load the UCS tables, or log the failure and return.
MainLoadUcsTables ==
    /\ pc = "load_ucs"
    /\ \E io_ok \in BOOLEAN :
          LET r == import_riscos_ucs_tables(ucs_file)
          IN  IF io_ok /\ r.err = "none"
              THEN /\ riscos_ucs_tables' = Some(r.tables)
                   /\ log' = Logged("info", "RISC OS UCSTables file loaded.")
                   /\ pc' = "encoding"
              ELSE /\ riscos_ucs_tables' = None
                   /\ log' = Logged("error", "Failed to load RISC OS UCSTables file")
                   /\ pc' = "returned"
    /\ UNCHANGED <<ucd_file, ucs_file, unicode_data, encoding, table, output, raised>>

\* The tables main writes, by name in the UCSTables file, with the struct
\* name and title of each: two stand for the sixteen of lines 223-238.
EncodingTables ==
    << [name |-> NameL1, struct |-> "encoding_acorn_latin1", title |-> "RISC OS Latin 1"],
       [name |-> NameL2, struct |-> "encoding_acorn_latin2", title |-> "RISC OS Latin 2"] >>

RECURSIVE WriteEncodingTables(_, _, _, _)
WriteEncodingTables(acc, data, riscos_tables, todo) ==
    IF todo = <<>> \/ acc.err # "none" THEN acc
    ELSE LET r == write_encoding_table(acc.table, data, riscos_tables, Head(todo).name,
                                       Head(todo).struct, Head(todo).title)
         IN  WriteEncodingTables([table |-> r.table, err |-> r.err,
                                  done |-> IF r.err = "none" THEN acc.done + 1 ELSE acc.done],
                                 data, riscos_tables, Tail(todo))

RECURSIVE LoggedTimes(_, _, _, _)
LoggedTimes(l, level, msg, n) ==
    IF n = 0 THEN l ELSE LoggedTimes(Append(l, [level |-> level, msg |-> msg]), level, msg, n - 1)

\* Lines 221-238: clear the table and write every encoding table, outside any try.
MainWriteEncodingTables ==
    /\ pc = "encoding"
    /\ LET r == WriteEncodingTables([table |-> clear(table), err |-> "none", done |-> 0],
                                    Val(unicode_data), Val(riscos_ucs_tables), EncodingTables)
       IN  /\ table' = r.table
           /\ raised' = r.err
           /\ log' = LoggedTimes(log, "info", "Generated the encoding table.", r.done)
           /\ pc' = IF r.err = "none" THEN "encoding_file" ELSE "crashed"
    /\ UNCHANGED <<ucd_file, ucs_file, unicode_data, riscos_ucs_tables, encoding, output>>

\* Lines 240-246: write encoding_tables.txt; any failure is logged.
MainWriteEncodingFile ==
    /\ pc = "encoding_file"
    /\ output' = Some(lines(table))
    /\ \E io_ok \in BOOLEAN :
          log' = IF io_ok /\ lines(table).err = "none"
                 THEN Logged("info", "Encoding Tables written.")
                 ELSE Logged("error", "Failed to write Encoding Tables")
    /\ pc' = "done"
    /\ UNCHANGED <<ucd_file, ucs_file, unicode_data, riscos_ucs_tables, encoding, table, raised>>

Init ==
    /\ pc = "main"
    /\ ucd_file \in MainUcdFiles
    /\ ucs_file \in MainUcsFiles
    /\ unicode_data = None
    /\ riscos_ucs_tables = None
    /\ encoding = None
    /\ table = Tabulate(DefaultTabWidth)
    /\ output = None
    /\ log = <<>>
    /\ raised = "none"

Next ==
    \/ MainLoadUnicodeData
    \/ MainWriteCaseChangeTable
    \/ MainWriteCaseFile
    \/ MainLoadUcsTables
    \/ MainWriteEncodingTables
    \/ MainWriteEncodingFile

Spec == Init /\ [][Next]_vars

(***************************************************************************)
(* Properties of Tabulate.                                                 *)
(***************************************************************************)
Min(a, b) == IF a <= b THEN a ELSE b

TupleRows(rows) == { i \in 1..Len(rows) : rows[i].kind = "tuple" }

\* The rows with fewer fields than there are tracked column widths.
ShortRows(t) == { i \in TupleRows(t.rows) : Len(t.rows[i].fields) < Len(t.widths) }

SetMin(S) == CHOOSE m \in S : \A n \in S : m <= n

\* A row aligned over the fields and widths paired up to the shorter length.
AlignedOverOwnFields(fields, widths, tab_width) ==
    rstrip(join([i \in 1..Min(Len(fields), Len(widths)) |->
                    Column(fields[i], widths[i], tab_width)]))

\* C8 as stated: whatever the field counts of the rows, lines() yields a line
\* for every row without failing, and a tuple row is aligned over its fields
\* and the widths paired up to the shorter length.
C8_RendersRowsOfAnyLength ==
    ~IsNone(output) =>
        LET r == Val(output)
        IN  /\ r.err = "none"
            /\ Len(r.out) = Len(table.rows)
            /\ \A i \in TupleRows(table.rows) :
                  r.out[i] = AlignedOverOwnFields(table.rows[i].fields, table.widths,
                                                  table.tab_width)

\* C8 amended: lines() runs to the end exactly when no row has fewer fields
\* than there are tracked widths; otherwise it raises ValueError at the first
\* such row, having yielded one line for each row before it and none after.
C8_ShortRowRaises ==
    ~IsNone(output) =>
        LET r == Val(output)
            short == ShortRows(table)
        IN  /\ (r.err = "none") <=> (short = {})
            /\ short = {} => Len(r.out) = Len(table.rows)
            /\ short # {} => r.err = "ValueError" /\ Len(r.out) = SetMin(short) - 1
            /\ \A i \in 1..Len(r.out) :
                  table.rows[i].kind = "tuple" =>
                      Len(table.rows[i].fields) = Len(table.widths)

\* A short row after a rendered row: lines() has yielded and then raised.
C8_Witness ==
    /\ ~IsNone(output)
    /\ ShortRows(table) # {}
    /\ Val(output).err = "ValueError"
    /\ Len(Val(output).out) >= 1
    /\ table.rows[1].kind = "tuple"

\* The longest field at index j over all the tuple rows now in the table.
RECURSIVE LongestField(_, _)
LongestField(rows, j) ==
    IF rows = <<>> THEN 0
    ELSE LET r == Head(rows)
             rest == LongestField(Tail(rows), j)
         IN  IF r.kind = "tuple" /\ j <= Len(r.fields)
             THEN Max(Len(r.fields[j]), rest) ELSE rest

\* The display column at which field k (from 1) is claimed to start.
RECURSIVE StartColumn(_, _, _)
StartColumn(rows, tab_width, k) ==
    IF k = 1 THEN 0
    ELSE StartColumn(rows, tab_width, k - 1)
         + ((LongestField(rows, k - 1) \div tab_width) + 1) * tab_width

\* What a line shows: one cell per character, and for a tab one cell for
\* every column up to the next multiple of tab_width.
RECURSIVE Display(_, _, _)
Display(s, col, tab_width) ==
    IF s = <<>> THEN <<>>
    ELSE IF Head(s) = Tab
         THEN LET n == tab_width - (col % tab_width)
              IN  Repeat(Tab, n) \o Display(Tail(s), col + n, tab_width)
         ELSE <<Head(s)>> \o Display(Tail(s), col + 1, tab_width)

\* The cells of a row whose field k starts at StartColumn(k), each field
\* followed by tab cells up to the next field's start.
ClaimedCells(fields, rows, tab_width) ==
    join([k \in 1..Len(fields) |->
            fields[k] \o Repeat(Tab, StartColumn(rows, tab_width, k + 1)
                                       - StartColumn(rows, tab_width, k)
                                       - Len(fields[k]))])

EqualFieldCounts(rows) ==
    \A i, j \in TupleRows(rows) : Len(rows[i].fields) = Len(rows[j].fields)

\* No field holds a tab: every character of a field takes one display column.
NoTabInFields(rows) ==
    \A i \in TupleRows(rows) : \A k \in 1..Len(rows[i].fields) :
        \A n \in 1..Len(rows[i].fields[k]) : rows[i].fields[k][n] # Tab

\* Every row of the output shows its fields at the claimed columns, up to the
\* trailing whitespace that lines() strips, with a tab after every field.
FieldsAtClaimedColumns ==
    LET r == Val(output)
    IN  /\ r.err = "none"
        /\ Len(r.out) = Len(table.rows)
        /\ \A i \in 1..Len(table.rows) :
              IF table.rows[i].kind = "str" THEN r.out[i] = table.rows[i].text
              ELSE /\ Display(r.out[i], 0, table.tab_width)
                        = rstrip(ClaimedCells(table.rows[i].fields, table.rows,
                                              table.tab_width))
                   /\ \A k \in 1..Len(table.rows[i].fields) :
                        StartColumn(table.rows, table.tab_width, k + 1)
                            > StartColumn(table.rows, table.tab_width, k)
                              + Len(table.rows[i].fields[k])

\* C9 as stated: with equal field counts since the last clear, field k of every
\* row starts at the sum over j < k of (W_j div tab_width + 1) * tab_width, W_j
\* being the longest field j of any row in the table, and a tab follows every field.
C9_FieldsStartAtColumnSums ==
    (~IsNone(output) /\ EqualFieldCounts(table.rows)) => FieldsAtClaimedColumns

\* C9 amended: the same, for rows whose fields hold no tab character.
C9_TabFreeFieldsStartAtColumnSums ==
    (~IsNone(output) /\ EqualFieldCounts(table.rows) /\ NoTabInFields(table.rows))
        => FieldsAtClaimedColumns

\* Two rows of two fields, the later row with the longer first field, so that
\* the earlier row is padded by a width set after it was added.
C9_Witness ==
    /\ ~IsNone(output)
    /\ NoTabInFields(table.rows)
    /\ Len(table.rows) = 2
    /\ TupleRows(table.rows) = {1, 2}
    /\ Len(table.rows[1].fields) = 2 /\ Len(table.rows[2].fields) = 2
    /\ Len(table.rows[1].fields[1]) < Len(table.rows[2].fields[1])
    /\ Len(table.rows[2].fields[1]) >= table.tab_width
    /\ table.rows[1].fields[2] = <<"a">>

(***************************************************************************)
(* import_riscos_ucs_tables applied to a file.                             *)
(***************************************************************************)
CallImportRiscosUcsTables ==
    /\ pc = "ucs"
    /\ LET r == import_riscos_ucs_tables(ucs_file)
       IN  IF r.err = "none"
           THEN riscos_ucs_tables' = Some(r.tables) /\ raised' = "none"
           ELSE riscos_ucs_tables' = None /\ raised' = r.err
    /\ pc' = "ucs_done"
    /\ UNCHANGED <<ucd_file, ucs_file, unicode_data, encoding, table, output, log>>

InitUcs ==
    /\ pc = "ucs"
    /\ ucd_file = <<>>
    /\ ucs_file \in UcsFiles
    /\ unicode_data = None
    /\ riscos_ucs_tables = None
    /\ encoding = None
    /\ table = Tabulate(DefaultTabWidth)
    /\ output = None
    /\ log = <<>>
    /\ raised = "none"

NextUcs == CallImportRiscosUcsTables

SpecUcs == InitUcs /\ [][NextUcs]_vars

(***************************************************************************)
(* Properties of import_riscos_ucs_tables.                                 *)
(***************************************************************************)
\* What a line of the file is, read off its text.
LineKind(rawline) ==
    LET line == strip(rawline)
    IN  IF line = <<>> \/ line[1] \in {";", "[", "]"} THEN "skipped"
        ELSE IF line[1] = "&" THEN "data" ELSE "name"

HasSeparator(rawline) == SubSeq(strip(rawline), 1, 2) = <<"&", " ">>

FieldsOf(rawline) == split(SubSeq(strip(rawline), 3, Len(strip(rawline))), ",")

\* A field is well formed when it is '&' followed by one or more hex digits.
WellFormedField(fld) ==
    /\ Len(fld) >= 2
    /\ fld[1] = "&"
    /\ \A i \in 2..Len(fld) : IsHexDigit(fld[i])

WellFormedLine(rawline) ==
    LineKind(rawline) = "data" =>
        /\ HasSeparator(rawline)
        /\ \A i \in 1..Len(FieldsOf(rawline)) : WellFormedField(FieldsOf(rawline)[i])

RECURSIVE Pow16(_)
Pow16(n) == IF n = 0 THEN 1 ELSE 16 * Pow16(n - 1)

RECURSIVE SumOver(_, _, _)
SumOver(f(_), lo, hi) == IF lo > hi THEN 0 ELSE f(lo) + SumOver(f, lo + 1, hi)

\* The number a text of hex digits denotes.
HexTextValue(text) ==
    LET term(i) == HexDigitValue(text[i]) * Pow16(Len(text) - i)
    IN  SumOver(term, 1, Len(text))

\* The number a well-formed field denotes.
FieldValue(fld) == HexTextValue(Tail(fld))

RECURSIVE ConcatOver(_, _, _)
ConcatOver(f(_), lo, hi) == IF lo > hi THEN <<>> ELSE f(lo) \o ConcatOver(f, lo + 1, hi)

\* The values a data line contributes when malformed lines and fields are skipped.
ValuesOfLine(rawline) ==
    IF LineKind(rawline) # "data" \/ ~HasSeparator(rawline) THEN <<>>
    ELSE LET fs == FieldsOf(rawline)
             one(i) == IF WellFormedField(fs[i]) THEN <<FieldValue(fs[i])>> ELSE <<>>
         IN  ConcatOver(one, 1, Len(fs))

NameLines(file) == { i \in 1..Len(file) : LineKind(file[i]) = "name" }

DeclaredNames(file) == { strip(file[i]) : i \in NameLines(file) }

SetMax(S) == CHOOSE m \in S : \A n \in S : m >= n

\* The values of the data lines after the last declaration of name and before
\* the next table-name line.
ExpectedTable(file, name) ==
    LET d == SetMax({ i \in NameLines(file) : strip(file[i]) = name })
        e == SetMin({ i \in NameLines(file) : i > d } \cup {Len(file) + 1})
        one(i) == ValuesOfLine(file[i])
    IN  ConcatOver(one, d + 1, e - 1)

ReturnsExpectedTables ==
    /\ raised = "none"
    /\ ~IsNone(riscos_ucs_tables)
    /\ DictKeys(Val(riscos_ucs_tables)) = DeclaredNames(ucs_file)
    /\ \A name \in DeclaredNames(ucs_file) :
          DictGet(Val(riscos_ucs_tables), name) = ExpectedTable(ucs_file, name)

\* C6: whatever the lines, import_riscos_ucs_tables returns and does not raise:
\* a data line without the separator and a malformed field are skipped and
\* the scan goes on, so each table holds the values of the well-formed fields.
C6_MalformedInputIsSkipped ==
    pc = "ucs_done" => ReturnsExpectedTables

\* C10: after a scan of well-formed lines every declared name holds, in order,
\* the values of the data lines between its last declaration and the next
\* table-name line; no other name is stored.
C10_TableHoldsItsBlock ==
    (pc = "ucs_done" /\ \A i \in 1..Len(ucs_file) : WellFormedLine(ucs_file[i]))
        => ReturnsExpectedTables

\* A name is declared, given data, another name is declared and given data,
\* and the first name is declared again.
C10_Witness ==
    /\ pc = "ucs_done"
    /\ \A i \in 1..Len(ucs_file) : WellFormedLine(ucs_file[i])
    /\ Len(ucs_file) = 4
    /\ LineKind(ucs_file[1]) = "data"
    /\ LineKind(ucs_file[2]) = "name"
    /\ LineKind(ucs_file[3]) = "data"
    /\ LineKind(ucs_file[4]) = "name"
    /\ strip(ucs_file[4]) = strip(ucs_file[2])
    /\ ~IsNone(riscos_ucs_tables)
    /\ DictGet(Val(riscos_ucs_tables), strip(ucs_file[2])) = <<>>

(***************************************************************************)
(* Properties of the case table.                                           *)
(***************************************************************************)
\* The tuple rows of the table, in order.
RECURSIVE TupleRowsOf(_)
TupleRowsOf(rows) ==
    IF rows = <<>> THEN <<>>
    ELSE IF Head(rows).kind = "tuple" THEN <<Head(rows).fields>> \o TupleRowsOf(Tail(rows))
    ELSE TupleRowsOf(Tail(rows))

\* The data rows: every tuple row but the last, which is the end row.
DataRows(t) ==
    LET all == TupleRowsOf(t.rows) IN SubSeq(all, 1, Len(all) - 1)

\* The number written in a field between a prefix and a suffix of given lengths.
HexIn(fld, prefix, suffix) == HexTextValue(SubSeq(fld, prefix + 1, Len(fld) - suffix))

CaseRowCodepoint(row) == HexIn(row[2], 3, 1)
CaseRowUpper(row) == HexIn(row[3], 2, 1)
CaseRowLower(row) == HexIn(row[4], 2, 1)
CaseRowTitle(row) == HexIn(row[5], 2, 2)

OrZero(v) == IF IsNone(v) THEN 0 ELSE Val(v)

IntegerKeysAndNames(data) ==
    \A i \in 1..Len(data) : ~IsNone(data[i].key) /\ ~IsNone(data[i].value.CharacterName)

\* C3: for a mapping with integer keys and names, the case table has exactly
\* one data row for each codepoint with an upper, lower or title mapping and
\* none for any other; the row carries upper or 0, lower or 0, and the title
\* mapping, or else the upper mapping, or else 0.
C3_OneRowPerCasedCodepoint ==
    (pc = "case_done" /\ IntegerKeysAndNames(Val(unicode_data))) =>
        LET data == Val(unicode_data)
            rows == DataRows(table)
            RowsFor(c) == { r \in 1..Len(rows) : CaseRowCodepoint(rows[r]) = c }
        IN  /\ raised = "none"
            /\ \A r \in 1..Len(rows) : Some(CaseRowCodepoint(rows[r])) \in DictKeys(data)
            /\ \A i \in 1..Len(data) :
                  LET c == Val(data[i].key)
                      ch == data[i].value
                  IN  IF ch.UpperCase = None /\ ch.LowerCase = None /\ ch.TitleCase = None
                      THEN RowsFor(c) = {}
                      ELSE /\ Cardinality(RowsFor(c)) = 1
                           /\ \A r \in RowsFor(c) :
                                 /\ CaseRowUpper(rows[r]) = OrZero(ch.UpperCase)
                                 /\ CaseRowLower(rows[r]) = OrZero(ch.LowerCase)
                                 /\ CaseRowTitle(rows[r]) =
                                       IF ch.TitleCase # None THEN Val(ch.TitleCase)
                                       ELSE OrZero(ch.UpperCase)

\* Two codepoints, one with an upper mapping and no title mapping, one with
\* no case mapping: one data row, whose title is the upper mapping.
C3_Witness ==
    /\ pc = "case_done"
    /\ raised = "none"
    /\ IntegerKeysAndNames(Val(unicode_data))
    /\ Len(Val(unicode_data)) = 2
    /\ Len(DataRows(table)) = 1
    /\ \E i \in 1..2 :
          /\ Val(unicode_data)[i].value.TitleCase = None
          /\ Val(unicode_data)[i].value.UpperCase # None
          /\ CaseRowTitle(DataRows(table)[1]) = Val(Val(unicode_data)[i].value.UpperCase)

\* C4: for a mapping import_unicode_data produced, the data rows of the case
\* table are in ascending codepoint order and the end-stop row is the last row.
C4_RowsAscendByCodepoint ==
    (pc = "case_done" /\ raised = "none") =>
        LET rows == DataRows(table)
            all == TupleRowsOf(table.rows)
        IN  /\ \A i, j \in 1..Len(rows) :
                  i < j => CaseRowCodepoint(rows[i]) < CaseRowCodepoint(rows[j])
            /\ all[Len(all)] = CaseEndRow

(***************************************************************************)
(* Properties of the encoding tables.                                      *)
(***************************************************************************)
TheLegacyTable == DictGet(Val(riscos_ucs_tables), NameL1)

\* The byte values whose entries the skip rules leave in.
Surviving(riscos_table) ==
    { b \in 0..(Len(riscos_table) - 1) :
        b >= 32 /\ b # 127 /\ riscos_table[b + 1] # Sentinel }

RECURSIVE Pow10(_)
Pow10(n) == IF n = 0 THEN 1 ELSE 10 * Pow10(n - 1)

\* The number a text of decimal digits denotes.
DecTextValue(text) ==
    LET term(i) == HexDigitValue(text[i]) * Pow10(Len(text) - i)
    IN  SumOver(term, 1, Len(text))

EncodingRowCodepoint(row) == DecTextValue(SubSeq(row[2], 2, Len(row[2]) - 1))
EncodingRowByte(row) == HexIn(row[3], 3, 3)

\* The data rows come from entries of the table that the skip rules leave in.
RowsComeFromTopBitEntries(minCodepoint) ==
    \A r \in 1..Len(DataRows(table)) :
        LET b == EncodingRowByte(DataRows(table)[r])
            c == EncodingRowCodepoint(DataRows(table)[r])
        IN  /\ b \in 0..(Len(TheLegacyTable) - 1)
            /\ TheLegacyTable[b + 1] = c
            /\ ~(b \in 0..31) /\ b # 127
            /\ c # Sentinel
            /\ c >= minCodepoint

\* C1 as stated: every data row write_encoding_table adds comes from an entry
\* with a byte value outside 0..31 and not 127, a codepoint that is not the
\* sentinel, and a codepoint of at least 128.
C1_RowsHaveCodepointsFrom128 ==
    (pc = "written" /\ raised = "none") => RowsComeFromTopBitEntries(128)

\* C1 amended: every data row comes from an entry with a byte value of at
\* least 128 (so outside 0..31 and not 127) and a codepoint that is not the
\* sentinel; the codepoint may be below 128.
C1_RowsHaveBytesFrom128 ==
    (pc = "written" /\ raised = "none") =>
        /\ RowsComeFromTopBitEntries(0)
        /\ \A r \in 1..Len(DataRows(table)) : EncodingRowByte(DataRows(table)[r]) >= 128

\* A table with a printable byte below 128 and a byte from 128 on, both
\* mapped: only the second is written.
C1_Witness ==
    /\ pc = "written"
    /\ raised = "none"
    /\ Len(DataRows(table)) = 1
    /\ \E b \in Surviving(TheLegacyTable) : b < 128
    /\ EncodingRowCodepoint(DataRows(table)[1]) < 128

\* C2: when every surviving codepoint is in the Unicode mapping, the list
\* holds exactly the surviving entries, in non-decreasing codepoint order,
\* entries with the same codepoint in ascending byte order.
C2_StableSortByCodepoint ==
    (pc = "built"
       /\ \A b \in Surviving(TheLegacyTable) :
             Some(TheLegacyTable[b + 1]) \in DictKeys(Val(unicode_data))) =>
        LET r == Val(encoding)
        IN  /\ r.err = "none"
            /\ Len(r.list) = Cardinality(Surviving(TheLegacyTable))
            /\ \A i \in 1..Len(r.list) :
                  /\ r.list[i].Character \in Surviving(TheLegacyTable)
                  /\ r.list[i].CodePoint = TheLegacyTable[r.list[i].Character + 1]
            /\ \A i, j \in 1..Len(r.list) :
                  i < j =>
                     \/ r.list[i].CodePoint < r.list[j].CodePoint
                     \/ /\ r.list[i].CodePoint = r.list[j].CodePoint
                        /\ r.list[i].Character < r.list[j].Character

\* Three entries: the first has the highest byte value, the other two share
\* a codepoint.
C2_Witness ==
    /\ pc = "built"
    /\ Val(encoding).err = "none"
    /\ Len(Val(encoding).list) = 3
    /\ Val(encoding).list[1].Character > Val(encoding).list[3].Character
    /\ Val(encoding).list[2].CodePoint = Val(encoding).list[3].CodePoint

\* C5: build_encoding_table raises KeyError and returns no list exactly when
\* a surviving entry has a codepoint that is not in the Unicode mapping; a
\* returned list leaves out no surviving entry.
C5_KeyErrorIffSurvivorMissing ==
    pc = "built" =>
        LET r == Val(encoding)
            missing == { b \in Surviving(TheLegacyTable) :
                            Some(TheLegacyTable[b + 1]) \notin DictKeys(Val(unicode_data)) }
        IN  /\ r.err \in {"none", "KeyError"}
            /\ (r.err = "KeyError") <=> (missing # {})
            /\ r.err = "KeyError" => r.list = <<>>
            /\ r.err = "none" =>
                  \A b \in Surviving(TheLegacyTable) :
                      \E i \in 1..Len(r.list) : r.list[i].Character = b

\* KeyError is raised for a surviving entry, and where a skipped byte has a
\* missing codepoint and no surviving entry has, a list is returned.
C5_Witness ==
    /\ pc = "built"
    /\ Val(encoding).err = "none"
    /\ Surviving(TheLegacyTable) # {}
    /\ \E b \in {31, 127} :
          /\ TheLegacyTable[b + 1] # Sentinel
          /\ Some(TheLegacyTable[b + 1]) \notin DictKeys(Val(unicode_data))

(***************************************************************************)
(* Properties of main.                                                     *)
(***************************************************************************)
HasLogged(msg) == \E i \in 1..Len(log) : log[i].msg = msg

RunOver == pc \in {"returned", "crashed", "done"}

\* C7: once the Unicode database has loaded, a run that is over has gone on
\* to attempt the load of the legacy tables, whatever happened while the case
\* table was generated or written.
C7_CaseFailureDoesNotStopRun ==
    (RunOver /\ HasLogged("UnicodeData file loaded.")) =>
        \/ HasLogged("RISC OS UCSTables file loaded.")
        \/ HasLogged("Failed to load RISC OS UCSTables file")

====
